---- MODULE Spec2Model ----
(***************************************************************************)
(* cafetch: one run of main = getSystemInfo (the Collector) followed by    *)
(* printInfo (the Presenter), modelled from src/cafetch.go.                *)
(*                                                                         *)
(* Go strings are modelled as sequences of characters, so that parsing     *)
(* (strconv.Atoi, strconv.ParseFloat, strings.Fields, ...) and formatting  *)
(* (fmt.Sprintf "%d") are computed character by character.  An ASCII       *)
(* character is the one-character string of it; any other character is the *)
(* name of its code point, "U+" and four hexadecimal digits ("U+2003").    *)
(* uint64 values of getDisk are little-endian sequences of 10-bit limbs;   *)
(* an int (64 bits) is a sign and such a sequence for its magnitude.       *)
(***************************************************************************)
EXTENDS Integers, Sequences, FiniteSets, TLC

VARIABLES
    pc,        \* position of main in its straight-line run
    host,      \* the host environment the resolvers read (files, env, statfs)
    given,     \* the numbers and names the host environment was built from
    info,      \* the SystemInfo record being filled in
    handles,   \* the file handles currently open
    pct,       \* printInfo's memPercent / diskPercent, and the divisions made
    i,         \* printInfo's loop index
    out        \* the lines written to standard output, in order

vars == <<pc, host, given, info, handles, pct, i, out>>

-----------------------------------------------------------------------------
(* Strings.                                                                 *)

DigitChars == <<"0", "1", "2", "3", "4", "5", "6", "7", "8", "9">>

IsDigit(c) == \E d \in 1..10 : DigitChars[d] = c

DigitVal(c) == (CHOOSE d \in 1..10 : DigitChars[d] = c) - 1

\* the characters unicode.IsSpace accepts: U+0009..U+000D (tab, line feed,
\* vertical tab, form feed, carriage return), U+0020, U+0085, U+00A0, U+1680,
\* U+2000..U+200A, U+2028, U+2029, U+202F, U+205F, U+3000
SpaceChars ==
    {"\t", "\n", "", "\f", "\r", " ", "U+0085", "U+00A0", "U+1680",
     "U+2000", "U+2001", "U+2002", "U+2003", "U+2004", "U+2005", "U+2006",
     "U+2007", "U+2008", "U+2009", "U+200A", "U+2028", "U+2029", "U+202F",
     "U+205F", "U+3000"}

\* unicode.IsSpace
IsSpace(c) == c \in SpaceChars

\* strings.HasPrefix
HasPrefix(s, p) == Len(s) >= Len(p) /\ SubSeq(s, 1, Len(p)) = p

\* strings.TrimPrefix
TrimPrefix(s, p) == IF HasPrefix(s, p) THEN SubSeq(s, Len(p) + 1, Len(s)) ELSE s

\* s from its first character outside cut on
TrimLeftFunc(s, cut) ==
    LET k == CHOOSE j \in 1..(Len(s) + 1) :
                 /\ j = Len(s) + 1 \/ s[j] \notin cut
                 /\ \A m \in 1..(j - 1) : s[m] \in cut
    IN  SubSeq(s, k, Len(s))

\* s up to its last character outside cut
TrimRightFunc(s, cut) ==
    LET k == CHOOSE j \in 0..Len(s) :
                 /\ j = 0 \/ s[j] \notin cut
                 /\ \A m \in (j + 1)..Len(s) : s[m] \in cut
    IN  SubSeq(s, 1, k)

\* strings.Trim(s, cutset): every leading and trailing character of cutset goes
Trim(s, cut) == TrimRightFunc(TrimLeftFunc(s, cut), cut)

\* strings.TrimSpace
TrimSpace(s) == Trim(s, SpaceChars)

\* strings.Fields: the maximal runs of non-space characters
Fields(s) ==
    LET IsStart(k) == ~IsSpace(s[k]) /\ (k = 1 \/ IsSpace(s[k - 1]))
        starts     == SelectSeq([k \in 1..Len(s) |-> k], IsStart)
        EndOf(k)   == CHOOSE j \in k..Len(s) :
                          /\ j = Len(s) \/ IsSpace(s[j + 1])
                          /\ \A m \in k..j : ~IsSpace(s[m])
    IN  [n \in 1..Len(starts) |-> SubSeq(s, starts[n], EndOf(starts[n]))] \o <<>>

\* strings.SplitN(s, sep, 2) for a one-character sep
SplitN2(s, sep) ==
    IF \E k \in 1..Len(s) : s[k] = sep
    THEN LET k == CHOOSE j \in 1..Len(s) : s[j] = sep /\ \A m \in 1..(j - 1) : s[m] # sep
         IN  <<SubSeq(s, 1, k - 1), SubSeq(s, k + 1, Len(s))>>
    ELSE <<s>>

\* the decimal text of an int within 32 bits (the numbers written into the
\* host's files)
RECURSIVE NatStr(_)
NatStr(n) ==
    IF n < 10 THEN <<DigitChars[n + 1]>>
    ELSE Append(NatStr(n \div 10), DigitChars[(n % 10) + 1])

Itoa(n) == IF n < 0 THEN <<"-">> \o NatStr(-n) ELSE NatStr(n)

-----------------------------------------------------------------------------
(* Unsigned 64-bit arithmetic of getDisk.  A value is a little-endian       *)
(* sequence of limbs in 0..LimbBase-1 with no leading (high) zero limb;     *)
(* zero is the empty sequence.  Three limbs are 30 bits, one gigabyte.      *)

LimbBase == 2^10

\* the sequence s without its leading (high) zero limbs
TrimHigh(s) ==
    LET top == {k \in 1..Len(s) : s[k] # 0 /\ \A m \in (k + 1)..Len(s) : s[m] = 0}
    IN  IF top = {} THEN <<>> ELSE SubSeq(s, 1, CHOOSE k \in top : TRUE)

\* a, given as a function on 1..n, as a sequence without its leading (high)
\* zero limbs
BigNorm(a) == TrimHigh(a \o <<>>)

RECURSIVE BigFromNat(_)
BigFromNat(n) ==
    IF n = 0 THEN <<>> ELSE <<n % LimbBase>> \o BigFromNat(n \div LimbBase)

\* the limb k of a, zero outside a
Limb(a, k) == IF 1 <= k /\ k <= Len(a) THEN a[k] ELSE 0

\* the number whose limb k is cols[k], each cols[k] at most 2 * LimbBase - 2:
\* a column takes a carry of 1 when a lower column overflows and every column
\* between the two is full
CarryCols(cols) ==
    BigNorm([k \in 1..(Len(cols) + 1) |->
        IF \E g \in 1..(k - 1) :
               /\ \A m \in (g + 1)..(k - 1) : cols[m] = LimbBase - 1
               /\ cols[g] >= LimbBase
        THEN (Limb(cols, k) + 1) % LimbBase
        ELSE Limb(cols, k) % LimbBase])

CarryNorm(cols) == CarryCols(cols \o <<>>)

BigAdd(a, b) ==
    CarryNorm([k \in 1..(IF Len(a) > Len(b) THEN Len(a) ELSE Len(b)) |->
                  Limb(a, k) + Limb(b, k)])

\* a - b for a >= b: a limb borrows when a lower limb of a is below that of
\* b and every limb between the two is equal
BigSub(a, b) ==
    BigNorm([k \in 1..Len(a) |->
        IF \E g \in 1..(k - 1) :
               /\ \A m \in (g + 1)..(k - 1) : a[m] = Limb(b, m)
               /\ a[g] < Limb(b, g)
        THEN (a[k] - Limb(b, k) - 1) % LimbBase
        ELSE (a[k] - Limb(b, k)) % LimbBase])

\* a * m for a limb m
BigMulLimb(a, m) ==
    CarryNorm([k \in 1..(Len(a) + 1) |->
                  ((Limb(a, k) * m) % LimbBase) + ((Limb(a, k - 1) * m) \div LimbBase)])

\* the sum of a[j] * b[k + 1 - j] for j in lo..hi, by halves
RECURSIVE ColumnSum(_, _, _, _, _)
ColumnSum(a, b, k, lo, hi) ==
    IF lo > hi THEN 0
    ELSE IF lo = hi THEN a[lo] * Limb(b, k + 1 - lo)
    ELSE ColumnSum(a, b, k, lo, (lo + hi) \div 2)
             + ColumnSum(a, b, k, ((lo + hi) \div 2) + 1, hi)

\* the number whose column k is cols[k], each cols[k] below LimbBase^3
BigFromColumns(cols) ==
    BigAdd(CarryNorm([k \in 1..(Len(cols) + 1) |->
                         (Limb(cols, k) % LimbBase)
                             + ((Limb(cols, k - 1) \div LimbBase) % LimbBase)]),
           BigNorm(<<0, 0>> \o [k \in 1..Len(cols) |-> cols[k] \div (LimbBase * LimbBase)]))

BigMul(a, b) ==
    IF a = <<>> \/ b = <<>> THEN <<>>
    ELSE BigFromColumns([k \in 1..(Len(a) + Len(b) - 1) |-> ColumnSum(a, b, k, 1, Len(a))])

\* a < b
BigLess(a, b) ==
    IF Len(a) # Len(b) THEN Len(a) < Len(b)
    ELSE \E k \in 1..Len(a) : a[k] < b[k] /\ \A m \in (k + 1)..Len(a) : a[m] = b[m]

BigLeq(a, b) == ~BigLess(b, a)

\* a div 2^30
BigShr30(a) == IF Len(a) <= 3 THEN <<>> ELSE SubSeq(a, 4, Len(a))

\* 2^k as a limb sequence
BigPow2(k) == [j \in 1..(k \div 10) |-> 0] \o <<2^(k % 10)>>

\* a mod 2^64: seven limbs, the seventh holding bits 60..63
Wrap64(a) ==
    BigNorm([j \in 1..(IF Len(a) < 7 THEN Len(a) ELSE 7) |->
                IF j = 7 THEN a[j] % 16 ELSE a[j]])

\* uint64 multiplication and subtraction wrap modulo 2^64
MulU64(a, b) == Wrap64(BigMul(a, b))

SubU64(a, b) ==
    IF BigLeq(b, a) THEN BigSub(a, b) ELSE BigSub(BigPow2(64), BigSub(b, a))

\* the number of bits of a
BitLen(a) ==
    IF a = <<>> THEN 0
    ELSE 10 * (Len(a) - 1)
            + (CHOOSE n \in 1..10 : 2^(n - 1) <= a[Len(a)] /\ a[Len(a)] < 2^n)

\* float64(x) for a uint64 x: exact up to 53 bits, else rounded to the nearest
\* multiple of 2^(BitLen-53), ties to the even multiple
Float64OfU64(a) ==
    IF BitLen(a) <= 53 THEN a
    ELSE LET sh   == BitLen(a) - 53
             low  == a[1] + LimbBase * (a[2] % 4)
             r    == low % 2^sh
             odd  == (low \div 2^sh) % 2 = 1
             half == 2^(sh - 1)
             down == BigSub(a, BigFromNat(r))
         IN  IF r > half \/ (r = half /\ odd)
             THEN BigAdd(down, BigFromNat(2^sh))
             ELSE down

\* int(float64(x) / gb) with gb = 2^30: the division is exact in float64
ToGB(x) == BigShr30(Float64OfU64(x))

-----------------------------------------------------------------------------
(* strconv.ParseFloat(s, 64) and int(float64).  A float64 is kept as its    *)
(* kind, its sign and, when finite, its exact value mant * 2^exp.  An int   *)
(* (64 bits) is kept as sign and magnitude, the magnitude a limb sequence.  *)

\* a * 2^k
BigShl(a, k) ==
    BigNorm([j \in 1..(Len(a) + (k \div 10) + 1) |->
                ((Limb(a, j - (k \div 10)) * 2^(k % 10)) % LimbBase)
                    + ((Limb(a, j - (k \div 10) - 1) * 2^(k % 10)) \div LimbBase)])

\* a div 2^k
BigShr(a, k) ==
    BigNorm([j \in 1..(IF Len(a) > k \div 10 THEN Len(a) - (k \div 10) ELSE 0) |->
                (Limb(a, j + (k \div 10)) \div 2^(k % 10))
                    + ((Limb(a, j + (k \div 10) + 1) % 2^(k % 10)) * 2^(10 - (k % 10)))])

\* b^k for a limb b, by squaring
RECURSIVE BigPow(_, _)
BigPowStep(half, b, odd) == IF odd THEN BigMulLimb(BigMul(half, half), b) ELSE BigMul(half, half)

BigPow(b, k) == IF k = 0 THEN <<1>> ELSE BigPowStep(BigPow(b, k \div 2), b, k % 2 = 1)

\* the digit j places after lo, scaled to its place in lo..hi
DigitAt(digs, base, lo, hi, j) ==
    IF lo + j <= hi THEN digs[lo + j] * base^(hi - lo - j) ELSE 0

\* the value of the digits lo..hi of the given base (at most 16), most
\* significant first: up to seven digits at once, more by halves
RECURSIVE DigitsRange(_, _, _, _)
DigitsRange(digs, base, lo, hi) ==
    IF hi - lo < 7
    THEN BigFromNat(DigitAt(digs, base, lo, hi, 0) + DigitAt(digs, base, lo, hi, 1)
                        + DigitAt(digs, base, lo, hi, 2) + DigitAt(digs, base, lo, hi, 3)
                        + DigitAt(digs, base, lo, hi, 4) + DigitAt(digs, base, lo, hi, 5)
                        + DigitAt(digs, base, lo, hi, 6))
    ELSE BigAdd(BigMul(DigitsRange(digs, base, lo, (lo + hi) \div 2),
                       BigPow(base, hi - ((lo + hi) \div 2))),
                DigitsRange(digs, base, ((lo + hi) \div 2) + 1, hi))

BigFromDigits(digs, base) == DigitsRange(digs \o <<>>, base, 1, Len(digs))

\* long division: the bits hi..lo of the quotient of st.rem by den join st.bits
RECURSIVE DivBits(_, _, _, _)
DivBits(st, den, hi, lo) ==
    IF hi < lo THEN st
    ELSE IF BigLeq(BigShl(den, hi), st.rem)
         THEN DivBits([rem |-> BigSub(st.rem, BigShl(den, hi)), bits |-> st.bits \cup {hi}],
                      den, hi - 1, lo)
         ELSE DivBits(st, den, hi - 1, lo)

\* the bits 9 * chunk + 8 .. 0 of the quotient, nine at a time
RECURSIVE DivChunks(_, _, _)
DivChunks(st, den, chunk) ==
    IF chunk < 0 THEN st
    ELSE DivChunks(DivBits(st, den, 9 * chunk + 8, 9 * chunk), den, chunk - 1)

\* the number whose set bits are bits, all below 60
BigFromBits(bits) ==
    BigNorm([j \in 1..6 |->
        LET At(t) == IF (10 * (j - 1) + t) \in bits THEN 2^t ELSE 0
        IN  At(0) + At(1) + At(2) + At(3) + At(4) + At(5) + At(6) + At(7) + At(8) + At(9)])

\* quotient (as its set of bits) and remainder of num by den, for a quotient
\* below 2^54
BigDiv54(num, den) == DivChunks([rem |-> num, bits |-> {}], den, 5)

UpperChars ==
    <<"A", "B", "C", "D", "E", "F", "G", "H", "I", "J", "K", "L", "M",
      "N", "O", "P", "Q", "R", "S", "T", "U", "V", "W", "X", "Y", "Z">>

LowerChars ==
    <<"a", "b", "c", "d", "e", "f", "g", "h", "i", "j", "k", "l", "m",
      "n", "o", "p", "q", "r", "s", "t", "u", "v", "w", "x", "y", "z">>

\* strconv's lower on letters: "A".."Z" become "a".."z"
Lower(c) ==
    IF \E k \in 1..26 : UpperChars[k] = c
    THEN LowerChars[CHOOSE k \in 1..26 : UpperChars[k] = c]
    ELSE c

\* a digit of the mantissa: decimal, or hexadecimal after "0x"
IsMantDigit(c, hex) ==
    \/ c \in {"0", "1", "2", "3", "4", "5", "6", "7", "8", "9"}
    \/ hex /\ c \in {"a", "b", "c", "d", "e", "f", "A", "B", "C", "D", "E", "F"}

MantDigitVal(c) ==
    CHOOSE v \in 0..15 :
        \/ v < 10 /\ DigitChars[v + 1] = c
        \/ v >= 10 /\ c \in {LowerChars[v - 9], UpperChars[v - 9]}

\* strconv's commonPrefixLenIgnoreCase
CommonPrefixLen(s, prefix) ==
    CHOOSE k \in 0..Len(prefix) :
        /\ k <= Len(s)
        /\ \A m \in 1..k : Lower(s[m]) = prefix[m]
        /\ k = Len(s) \/ k = Len(prefix) \/ Lower(s[k + 1]) # prefix[k + 1]

InfinityText == <<"i", "n", "f", "i", "n", "i", "t", "y">>

NaNText == <<"n", "a", "n">>

\* special, once the sign is off: n characters of "infinity" matched
SpecialInf(neg, nsign, n) ==
    IF n = 3 \/ n = 8
    THEN [ok |-> TRUE, kind |-> "inf", neg |-> neg, n |-> nsign + n]
    ELSE [ok |-> FALSE, kind |-> "nan", neg |-> FALSE, n |-> 0]

\* strconv's special: "inf" / "infinity" with an optional sign and "nan"
\* without one, in any case; n is the number of characters consumed
special(s) ==
    IF s = <<>> THEN [ok |-> FALSE, kind |-> "nan", neg |-> FALSE, n |-> 0]
    ELSE IF s[1] \in {"+", "-"}
         THEN SpecialInf(s[1] = "-", 1,
                         IF CommonPrefixLen(Tail(s), InfinityText) \in 4..7 THEN 3
                         ELSE CommonPrefixLen(Tail(s), InfinityText))
    ELSE IF s[1] \in {"i", "I"}
         THEN SpecialInf(FALSE, 0,
                         IF CommonPrefixLen(s, InfinityText) \in 4..7 THEN 3
                         ELSE CommonPrefixLen(s, InfinityText))
    ELSE IF s[1] \in {"n", "N"} /\ CommonPrefixLen(s, NaNText) = 3
         THEN [ok |-> TRUE, kind |-> "nan", neg |-> FALSE, n |-> 3]
    ELSE [ok |-> FALSE, kind |-> "nan", neg |-> FALSE, n |-> 0]

\* underscoreOK on the text after the sign, the number proper starting at
\* first: an underscore follows a digit (or the base prefix) and precedes one
UnderscoresIn(body, first, prefix, hex) ==
    \A k \in first..Len(body) :
        body[k] = "_" =>
            /\ IF k = first THEN prefix ELSE IsMantDigit(body[k - 1], hex)
            /\ k < Len(body)
            /\ IsMantDigit(body[k + 1], hex)

UnderscoresAfterSign(body) ==
    IF Len(body) >= 2 /\ body[1] = "0" /\ body[2] \in {"b", "B", "o", "O", "x", "X"}
    THEN UnderscoresIn(body, 3, TRUE, body[2] \in {"x", "X"})
    ELSE UnderscoresIn(body, 1, FALSE, FALSE)

\* strconv's underscoreOK: an underscore only between digits, or between the
\* base prefix ("0b", "0o", "0x") and a digit
underscoreOK(s) ==
    IF s # <<>> /\ s[1] \in {"+", "-"}
    THEN UnderscoresAfterSign(Tail(s))
    ELSE UnderscoresAfterSign(s)

\* readFloat's mantissa loop stops at the first character from k on that is
\* neither "_", "." nor a digit (Len(s) + 1 when there is none) ...
MantissaRunEnd(s, k, hex) ==
    CHOOSE j \in k..(Len(s) + 1) :
        /\ \A m \in k..(j - 1) : s[m] \in {"_", "."} \/ IsMantDigit(s[m], hex)
        /\ j = Len(s) + 1 \/ ~(s[j] \in {"_", "."} \/ IsMantDigit(s[j], hex))

\* ... or at a second "."
SecondDotOr(s, k, run) ==
    IF Cardinality({j \in k..(run - 1) : s[j] = "."}) >= 2
    THEN CHOOSE j \in k..(run - 1) :
             s[j] = "." /\ Cardinality({m \in k..(j - 1) : s[m] = "."}) = 1
    ELSE run

MantissaEnd(s, k, hex) == SecondDotOr(s, k, MantissaRunEnd(s, k, hex))

\* readFloat's exponent loop stops at the first character from k on that is
\* neither a digit nor "_"
ExponentEnd(s, k) ==
    CHOOSE j \in k..(Len(s) + 1) :
        /\ \A m \in k..(j - 1) : IsMantDigit(s[m], FALSE) \/ s[m] = "_"
        /\ j = Len(s) + 1 \/ ~(IsMantDigit(s[j], FALSE) \/ s[j] = "_")

\* the number of leading elements of digs equal to zero
LeadingZeros(digs, zero) ==
    CHOOSE n \in 0..Len(digs) :
        /\ \A m \in 1..n : digs[m] = zero
        /\ n = Len(digs) \/ digs[n + 1] # zero

\* readFloat's exponent value: e = e*10 + digit as long as e < 10000, that is
\* the value of the first five digits after the lz leading zeros
ExponentOf(ds, lz) ==
    DigitAt(ds, 10, lz + 1, IF Len(ds) < lz + 5 THEN Len(ds) ELSE lz + 5, 0)
        + DigitAt(ds, 10, lz + 1, IF Len(ds) < lz + 5 THEN Len(ds) ELSE lz + 5, 1)
        + DigitAt(ds, 10, lz + 1, IF Len(ds) < lz + 5 THEN Len(ds) ELSE lz + 5, 2)
        + DigitAt(ds, 10, lz + 1, IF Len(ds) < lz + 5 THEN Len(ds) ELSE lz + 5, 3)
        + DigitAt(ds, 10, lz + 1, IF Len(ds) < lz + 5 THEN Len(ds) ELSE lz + 5, 4)

ExponentVal(cs) ==
    ExponentOf([k \in 1..Len(cs) |-> MantDigitVal(cs[k])], LeadingZeros(cs, "0"))

\* what readFloat returns when it cannot read a number
NoFloat == [ok |-> FALSE, neg |-> FALSE, hex |-> FALSE, digs |-> <<>>, exp |-> 0, n |-> 0]

\* readFloat's end: the underscores of the n characters consumed are checked
ReadDone(s, hex, mant, e, n) ==
    IF (\E k \in 1..n : s[k] = "_") /\ ~underscoreOK(SubSeq(s, 1, n)) THEN NoFloat
    ELSE [ok |-> TRUE, neg |-> s[1] = "-", hex |-> hex,
          digs |-> [k \in 1..Len(SelectSeq(mant, LAMBDA c : IsMantDigit(c, hex))) |->
                       MantDigitVal(SelectSeq(mant, LAMBDA c : IsMantDigit(c, hex))[k])],
          exp |-> (IF hex THEN 4 ELSE 1)
                    * (IF \E k \in 1..Len(mant) : mant[k] = "."
                       THEN -Len(SelectSeq(SubSeq(mant,
                                                  CHOOSE k \in 1..Len(mant) : mant[k] = ".",
                                                  Len(mant)),
                                           LAMBDA c : IsMantDigit(c, hex)))
                       ELSE 0)
                    + e,
          n |-> n]

\* readFloat's optional exponent, j the position after the exponent
\* character and its sign: a digit has to follow
ReadExponent(s, hex, mant, j, esign) ==
    IF j > Len(s) \/ ~IsMantDigit(s[j], FALSE) THEN NoFloat
    ELSE ReadDone(s, hex, mant,
                  esign * ExponentVal(SelectSeq(SubSeq(s, j, ExponentEnd(s, j) - 1),
                                                LAMBDA c : IsMantDigit(c, FALSE))),
                  ExponentEnd(s, j) - 1)

\* readFloat after the mantissa, which ends before position mEnd: at least
\* one digit, then the exponent ("e", or "p" when hex, where it is required)
ReadAfterMantissa(s, hex, mant, mEnd) ==
    IF \A k \in 1..Len(mant) : ~IsMantDigit(mant[k], hex) THEN NoFloat
    ELSE IF mEnd <= Len(s) /\ s[mEnd] \in (IF hex THEN {"p", "P"} ELSE {"e", "E"})
         THEN IF mEnd + 1 <= Len(s) /\ s[mEnd + 1] \in {"+", "-"}
              THEN ReadExponent(s, hex, mant, mEnd + 2, IF s[mEnd + 1] = "-" THEN -1 ELSE 1)
              ELSE ReadExponent(s, hex, mant, mEnd + 1, 1)
    ELSE IF hex THEN NoFloat
    ELSE ReadDone(s, hex, mant, 0, mEnd - 1)

\* readFloat from position k, after the sign and the base prefix
ReadMantissa(s, hex, k) ==
    ReadAfterMantissa(s, hex, SubSeq(s, k, MantissaEnd(s, k, hex) - 1),
                      MantissaEnd(s, k, hex))

\* readFloat from position k, after the sign: "0x" and one more character
\* announce a hexadecimal mantissa
ReadBase(s, k) ==
    IF k + 2 <= Len(s) /\ s[k] = "0" /\ s[k + 1] \in {"x", "X"}
    THEN ReadMantissa(s, TRUE, k + 2)
    ELSE ReadMantissa(s, FALSE, k)

\* strconv's readFloat: [+-] mantissa [exponent], the mantissa decimal or,
\* after "0x", hexadecimal.  digs are the mantissa's digits, exp the power of
\* 10 (of 2 when hex) that scales them, n the number of characters consumed
readFloat(s) ==
    IF s = <<>> THEN NoFloat
    ELSE IF s[1] \in {"+", "-"} THEN ReadBase(s, 2)
    ELSE ReadBase(s, 1)

\* whether num / den is at least 2^l
AtLeastPow2(num, den, l) ==
    IF l >= 0 THEN BigLeq(BigShl(den, l), num) ELSE BigLeq(den, BigShl(num, -l))

\* the integer part of the binary logarithm of num / den
FloorLog2(num, den) ==
    IF AtLeastPow2(num, den, BitLen(num) - BitLen(den))
    THEN BitLen(num) - BitLen(den)
    ELSE BitLen(num) - BitLen(den) - 1

\* quo + 1 when the remainder rem of the division by den is above den / 2,
\* or is den / 2 and quo is odd; quo otherwise
RoundHalfEven(quo, rem2, den) ==
    IF BigLess(den, rem2) \/ (rem2 = den /\ quo # <<>> /\ quo[1] % 2 = 1)
    THEN BigAdd(quo, <<1>>)
    ELSE quo

RoundQuotient(qr, den, exp) ==
    [mant |-> RoundHalfEven(BigFromBits(qr.bits), BigShl(qr.rem, 1), den), exp |-> exp]

RoundScaled(num, den, exp) == RoundQuotient(BigDiv54(num, den), den, exp)

RoundAt(num, den, exp) ==
    IF exp >= 0 THEN RoundScaled(num, BigShl(den, exp), exp)
    ELSE RoundScaled(BigShl(num, -exp), den, exp)

\* the float64 nearest to num / den (both positive), ties to the even
\* mantissa; the result is mant * 2^exp, exp the exponent of the last
\* mantissa bit: 53 bits of mantissa, fewer below 2^-1022
RoundFloat64(num, den) ==
    RoundAt(num, den,
            IF FloorLog2(num, den) - 52 > -1074 THEN FloorLog2(num, den) - 52 ELSE -1074)

\* a value that rounds to 2^1024 or more is a range error
FiniteOrRange(neg, r) ==
    IF BitLen(r.mant) + r.exp > 1024
    THEN [err |-> TRUE, kind |-> "inf", neg |-> neg, mant |-> <<>>, exp |-> 0]
    ELSE [err |-> FALSE, kind |-> "finite", neg |-> neg, mant |-> r.mant, exp |-> r.exp]

\* the float64 of the digits d scaled by base^exp, point the number of
\* digits (of bits when hex) of its integer part: beyond the float64 range
\* the result is a range error above and zero below
FloatOfDigits(rf, d, point) ==
    IF d = <<>> \/ point < (IF rf.hex THEN -1075 ELSE -330)
    THEN [err |-> FALSE, kind |-> "finite", neg |-> rf.neg, mant |-> <<>>, exp |-> 0]
    ELSE IF point > (IF rf.hex THEN 1024 ELSE 310)
         THEN [err |-> TRUE, kind |-> "inf", neg |-> rf.neg, mant |-> <<>>, exp |-> 0]
    ELSE IF rf.exp < 0
         THEN FiniteOrRange(rf.neg,
                  RoundFloat64(d, IF rf.hex THEN BigPow2(-rf.exp) ELSE BigPow(10, -rf.exp)))
    ELSE FiniteOrRange(rf.neg,
             RoundFloat64(IF rf.hex THEN BigShl(d, rf.exp) ELSE BigMul(d, BigPow(10, rf.exp)),
                          <<1>>))

FloatOfBig(rf, d) ==
    FloatOfDigits(rf, d,
                  IF rf.hex THEN BitLen(d) + rf.exp
                  ELSE Len(rf.digs) - LeadingZeros(rf.digs, 0) + rf.exp)

\* the float64 of what readFloat read
FloatOf(rf) == FloatOfBig(rf, BigFromDigits(rf.digs, IF rf.hex THEN 16 ELSE 10))

\* ParseFloat when the text is not special: the whole of s has to be read
ParseNumber(s, rf) ==
    IF ~rf.ok \/ rf.n # Len(s)
    THEN [err |-> TRUE, kind |-> "finite", neg |-> FALSE, mant |-> <<>>, exp |-> 0]
    ELSE FloatOf(rf)

ParseSpecial(s, sp) ==
    IF ~sp.ok THEN ParseNumber(s, readFloat(s))
    ELSE IF sp.n # Len(s)
         THEN [err |-> TRUE, kind |-> "finite", neg |-> FALSE, mant |-> <<>>, exp |-> 0]
    ELSE [err |-> FALSE, kind |-> sp.kind, neg |-> sp.neg, mant |-> <<>>, exp |-> 0]

\* strconv.ParseFloat(s, 64)
ParseFloat(s) == ParseSpecial(s, special(s))

MinInt64 == [neg |-> TRUE, mag |-> BigPow2(63)]

MaxInt64 == [neg |-> FALSE, mag |-> BigSub(BigPow2(63), <<1>>)]

\* int(f) of a finite f whose integer part has the magnitude mag
IntOfMagnitude(neg, mag) ==
    IF neg /\ BigLeq(mag, MinInt64.mag) THEN {[neg |-> mag # <<>>, mag |-> mag]}
    ELSE IF ~neg /\ BigLeq(mag, MaxInt64.mag) THEN {[neg |-> FALSE, mag |-> mag]}
    ELSE IF neg THEN {MinInt64}
    ELSE {MinInt64, MaxInt64}

\* int(f): truncation toward zero when the result is an int64.  For NaN, an
\* infinity or a value outside int64 the result is implementation-dependent:
\* the set holds what the compiled conversions give (the smallest int64 where
\* the instruction reports an invalid conversion that way, a saturated value
\* or zero elsewhere)
IntOfFloat(f) ==
    IF f.kind = "nan" THEN {MinInt64, [neg |-> FALSE, mag |-> <<>>], MaxInt64}
    ELSE IF f.kind = "inf" THEN (IF f.neg THEN {MinInt64} ELSE {MinInt64, MaxInt64})
    ELSE IF f.exp >= 0 THEN IntOfMagnitude(f.neg, BigShl(f.mant, f.exp))
    ELSE IntOfMagnitude(f.neg, BigShr(f.mant, -f.exp))

\* quotient and remainder of a by a small positive d, from the high limb down
RECURSIVE BigDivSmall(_, _)
DivSmallStep(hi, limb, d) ==
    [quo |-> BigNorm(<<(hi.rem * LimbBase + limb) \div d>> \o hi.quo),
     rem |-> (hi.rem * LimbBase + limb) % d]

BigDivSmall(a, d) ==
    IF a = <<>> THEN [quo |-> <<>>, rem |-> 0]
    ELSE DivSmallStep(BigDivSmall(Tail(a), d), a[1], d)

\* x / y and x % y on ints kept as sign and magnitude, y small and positive
QuotInt64(x, y) ==
    [neg |-> x.neg /\ BigDivSmall(x.mag, y).quo # <<>>, mag |-> BigDivSmall(x.mag, y).quo]

RemInt64(x, y) ==
    [neg |-> x.neg /\ BigDivSmall(x.mag, y).rem # 0,
     mag |-> BigFromNat(BigDivSmall(x.mag, y).rem)]

\* the decimal digits of a
RECURSIVE BigDigits(_)
DigitsStep(qr) == Append(BigDigits(qr.quo), DigitChars[qr.rem + 1])

BigDigits(a) == IF a = <<>> THEN <<>> ELSE DigitsStep(BigDivSmall(a, 10))

\* fmt's %d on an int kept as sign and magnitude
FormatInt64(x) ==
    IF x.mag = <<>> THEN <<"0">>
    ELSE (IF x.neg THEN <<"-">> ELSE <<>>) \o BigDigits(x.mag)

-----------------------------------------------------------------------------
(* strconv.Atoi and the int arithmetic of getMemory.                        *)

\* the zero value of int
Zero64 == [neg |-> FALSE, mag |-> <<>>]

MaxUint64 == BigSub(BigPow2(64), <<1>>)

\* the number of decimal digits s begins with
DigitRunLen(s) ==
    CHOOSE n \in 0..Len(s) :
        /\ \A m \in 1..n : IsDigit(s[m])
        /\ n = Len(s) \/ ~IsDigit(s[n + 1])

\* Atoi's result for the text body after the sign, run the number of digits
\* body begins with and v their value.  ParseUint stops with a range error at
\* the digit that takes the value past MaxUint64, before it looks at what
\* follows; it stops with a syntax error at a character that is no digit and
\* on an empty text.  A range error leaves the nearest int, a syntax error 0
AtoiValue(neg, body, run, v) ==
    IF BigLess(MaxUint64, v) THEN [val |-> IF neg THEN MinInt64 ELSE MaxInt64, err |-> TRUE]
    ELSE IF body = <<>> \/ run # Len(body) THEN [val |-> Zero64, err |-> TRUE]
    ELSE IF ~neg /\ BigLess(MaxInt64.mag, v) THEN [val |-> MaxInt64, err |-> TRUE]
    ELSE IF neg /\ BigLess(MinInt64.mag, v) THEN [val |-> MinInt64, err |-> TRUE]
    ELSE [val |-> [neg |-> neg /\ v # <<>>, mag |-> v], err |-> FALSE]

AtoiBody(neg, body) ==
    AtoiValue(neg, body, DigitRunLen(body),
              BigFromDigits([k \in 1..DigitRunLen(body) |-> DigitVal(body[k])], 10))

\* strconv.Atoi: an optional sign and one or more decimal digits; the source
\* drops the error and keeps the value
Atoi(s) ==
    IF s # <<>> /\ s[1] \in {"+", "-"} THEN AtoiBody(s[1] = "-", Tail(s))
    ELSE AtoiBody(FALSE, s)

\* x > 0
IsPositive(x) == ~x.neg /\ x.mag # <<>>

\* x - y, for operands whose difference is an int
SubInt64(x, y) ==
    IF x.neg # y.neg /\ y.mag # <<>> THEN [neg |-> x.neg, mag |-> BigAdd(x.mag, y.mag)]
    ELSE IF BigLeq(y.mag, x.mag)
         THEN [neg |-> x.neg /\ x.mag # y.mag, mag |-> BigSub(x.mag, y.mag)]
    ELSE [neg |-> ~x.neg, mag |-> BigSub(y.mag, x.mag)]

-----------------------------------------------------------------------------
(* The resolvers of getSystemInfo, as functions of what they read.          *)

\* runtime.GOOS and runtime.GOARCH of the build
GOOS == <<"l", "i", "n", "u", "x">>

GOARCH == <<"a", "m", "d", "6", "4">>

\* the fallback sentinel "N/A"
NA == <<"N", "/", "A">>

PrettyKey == <<"P", "R", "E", "T", "T", "Y", "_", "N", "A", "M", "E", "=">>

ModelNameKey == <<"m", "o", "d", "e", "l", " ", "n", "a", "m", "e">>

MemTotalKey == <<"M", "e", "m", "T", "o", "t", "a", "l", ":">>

MemAvailableKey == <<"M", "e", "m", "A", "v", "a", "i", "l", "a", "b", "l", "e", ":">>

SecondsPerDay == 86400

SecondsPerHour == 3600

SecondsPerMinute == 60

KBPerMB == 1024

\* runCmd: the trimmed output, or "N/A" when the command fails
runCmd(cmd) == IF cmd.err THEN NA ELSE TrimSpace(cmd.out)

\* os.Getenv: the empty string for an unset variable
Getenv(env, key) == IF env[key].set THEN env[key].val ELSE <<>>

getEnvOrDefault(env, key, defaultVal) ==
    IF Getenv(env, key) # <<>> THEN Getenv(env, key) ELSE defaultVal

\* strings.Trim(value, `"`) on the text after the prefix
KeepQuotes(value) == value

Unquote(value) == Trim(value, {"\""})

\* getOS's scan loop: the first line with the prefix decides
RECURSIVE ScanPrettyName(_)
ScanPrettyName(lines) ==
    IF lines = <<>> THEN GOOS
    ELSE IF HasPrefix(lines[1], PrettyKey)
         THEN Unquote(TrimPrefix(lines[1], PrettyKey))
         ELSE ScanPrettyName(Tail(lines))

getOS(file) == IF file.err THEN GOOS ELSE ScanPrettyName(file.lines)

\* getCPU's scan loop: a "model name" line without a colon is passed over
RECURSIVE ScanModelName(_)
ScanModelName(lines) ==
    IF lines = <<>> THEN NA
    ELSE IF HasPrefix(lines[1], ModelNameKey) /\ Len(SplitN2(lines[1], ":")) = 2
         THEN TrimSpace(SplitN2(lines[1], ":")[2])
         ELSE ScanModelName(Tail(lines))

getCPU(file) == IF file.err THEN NA ELSE ScanModelName(file.lines)

\* fmt.Sprintf("%dd %dh %dm", ...) when days > 0, else fmt.Sprintf("%dh %dm", ...)
UptimeSprintf(days, hours, minutes) ==
    IF ~days.neg /\ days.mag # <<>>
    THEN FormatInt64(days) \o <<"d", " ">> \o FormatInt64(hours) \o <<"h", " ">>
             \o FormatInt64(minutes) \o <<"m">>
    ELSE FormatInt64(hours) \o <<"h", " ">> \o FormatInt64(minutes) \o <<"m">>

\* getUptime, from the integer seconds on
FormatUptimeNoMod(s) ==
    UptimeSprintf(QuotInt64(s, SecondsPerDay),
                  QuotInt64(s, SecondsPerHour),
                  QuotInt64(RemInt64(s, SecondsPerHour), SecondsPerMinute))

FormatUptime(s) ==
    UptimeSprintf(QuotInt64(s, SecondsPerDay),
                  QuotInt64(RemInt64(s, SecondsPerDay), SecondsPerHour),
                  QuotInt64(RemInt64(s, SecondsPerHour), SecondsPerMinute))

\* getUptime from the parsed float on: the texts it can return, one unless
\* the conversion to int is implementation-dependent
UptimeOfFloat(f) ==
    IF f.err THEN {NA} ELSE {FormatUptime(s) : s \in IntOfFloat(f)}

UptimeOfFields(fields) ==
    IF Len(fields) = 0 THEN {NA} ELSE UptimeOfFloat(ParseFloat(fields[1]))

\* getUptime on the bytes os.ReadFile returned
ParseUptime(data) == UptimeOfFields(Fields(data))

getUptime(file) == IF file.err THEN {NA} ELSE ParseUptime(file.data)

\* getMemory's early exit
StopScanEither(memTotal, memAvail) == IsPositive(memTotal) \/ IsPositive(memAvail)

StopScan(memTotal, memAvail) == IsPositive(memTotal) /\ IsPositive(memAvail)

\* getMemory's scan loop from (memTotal, memAvail); with earlyExit FALSE the
\* break is never taken and every line is read
RECURSIVE ScanMeminfo(_, _, _, _)
ScanMeminfo(lines, memTotal, memAvail, earlyExit) ==
    IF lines = <<>> THEN <<memTotal, memAvail>>
    ELSE LET line   == lines[1]
             fields == Fields(line)
         IN  IF Len(fields) < 2
             THEN ScanMeminfo(Tail(lines), memTotal, memAvail, earlyExit)
             ELSE LET val == Atoi(fields[2]).val
                      mt  == IF HasPrefix(line, MemTotalKey) THEN val ELSE memTotal
                      ma  == IF HasPrefix(line, MemAvailableKey) THEN val ELSE memAvail
                  IN  IF earlyExit /\ StopScan(mt, ma)
                      THEN <<mt, ma>>
                      ELSE ScanMeminfo(Tail(lines), mt, ma, earlyExit)

\* getMemory's conversion of (memTotal, memAvail) kB to (total, used) MB
ToMB(kb) ==
    [total |-> QuotInt64(kb[1], KBPerMB),
     used  |-> SubInt64(QuotInt64(kb[1], KBPerMB), QuotInt64(kb[2], KBPerMB))]

getMemoryScan(lines, earlyExit) == ToMB(ScanMeminfo(lines, Zero64, Zero64, earlyExit))

getMemory(file) ==
    IF file.err THEN [total |-> Zero64, used |-> Zero64]
    ELSE getMemoryScan(file.lines, TRUE)

\* getDisk: total and used gigabytes, as limb sequences
getDisk(st) ==
    IF st.err THEN [total |-> <<>>, used |-> <<>>]
    ELSE LET totalBytes == MulU64(st.Blocks, st.Bsize)
             freeBytes  == MulU64(st.Bavail, st.Bsize)
             usedBytes  == SubU64(totalBytes, freeBytes)
         IN  [total |-> ToGB(totalBytes), used |-> ToGB(usedBytes)]

\* defer file.Close(): the handle is released when the resolver returns
ReleaseNone(hs, name) == hs

Release(hs, name) == hs \ {name}

-----------------------------------------------------------------------------
(* printInfo.                                                               *)

\* the six lines of the logo, each with its colour
Logo ==
    << <<"cyan",   "     ( (  ">>,
       <<"cyan",   "      ) ) ">>,
       <<"yellow", "  ........ ">>,
       <<"yellow", "  |      |]">>,
       <<"yellow", "  |      | ">>,
       <<"yellow", "   ======  ">> >>

\* the guards of the two percentage computations
MemTotalNotNegative(total) == ~total.neg

MemTotalPositive(total) == IsPositive(total)

DiskTotalPositive(total) == total # <<>>

\* memPercent := 0.0
NoPercent == [div |-> FALSE, used |-> 0, total |-> 0]

\* float64(used) / float64(total) * 100, kept as the operands of the division
PercentOf(used, total) == [div |-> TRUE, used |-> used, total |-> total]

\* the fifteen data lines, each as its label and its values
DataLines(nfo, p) ==
    << <<"bold", nfo.User, "@", nfo.Host>>,
       <<"cyan", "cafetch", "Go", "runtime.Version">>,
       <<>>,
       <<"yellow", "OS:     ", nfo.OS>>,
       <<"yellow", "Kernel: ", nfo.Kernel>>,
       <<"yellow", "Arch:   ", nfo.Arch>>,
       <<"yellow", "Uptime: ", nfo.Uptime>>,
       <<>>,
       <<"green", "CPU:  ", nfo.CPU>>,
       <<"green", "Mem:  ", nfo.MemUsed, "MB", nfo.MemTotal, "MB", p.mem>>,
       <<"green", "Disk: ", nfo.DiskUsed, "GB", nfo.DiskTotal, "GB", p.disk>>,
       <<>>,
       <<"magenta", "Shell: ", nfo.Shell>>,
       <<"magenta", "Term:  ", nfo.Term>>,
       <<"magenta", "Time:  ", "time.Now">> >>

\* maxLines
MaxLinesLogoOnly(logo, data) == Len(logo)

MaxLines(logo, data) == IF Len(data) > Len(logo) THEN Len(data) ELSE Len(logo)

\* line idx (from 0) of a sequence, or the empty string past its end
LineAt(lines, idx) == IF idx < Len(lines) THEN lines[idx + 1] ELSE <<>>

-----------------------------------------------------------------------------
(* One run of main.                                                         *)

OSReleasePath == "/etc/os-release"

CPUInfoPath == "/proc/cpuinfo"

UptimePath == "/proc/uptime"

MeminfoPath == "/proc/meminfo"

\* the zero value of SystemInfo
ZeroInfo ==
    [OS |-> <<>>, Kernel |-> <<>>, Arch |-> <<>>, Host |-> <<>>, User |-> <<>>,
     Shell |-> <<>>, Term |-> <<>>, CPU |-> <<>>, Uptime |-> <<>>,
     MemUsed |-> Zero64, MemTotal |-> Zero64, DiskUsed |-> <<>>, DiskTotal |-> <<>>]

NoPct == [mem |-> NoPercent, disk |-> NoPercent, divs |-> <<>>]

\* os.Open in getOS; on failure getOS returns runtime.GOOS at once
GetOSOpen ==
    /\ pc = "getOS"
    /\ IF host.osRelease.err
       THEN /\ info' = [info EXCEPT !.OS = getOS(host.osRelease)]
            /\ pc' = "runCmd"
            /\ UNCHANGED handles
       ELSE /\ handles' = handles \cup {OSReleasePath}
            /\ pc' = "getOS_scan"
            /\ UNCHANGED info
    /\ UNCHANGED <<host, given, pct, i, out>>

\* getOS's scan loop and its return, on which the deferred Close runs
GetOSScan ==
    /\ pc = "getOS_scan"
    /\ info' = [info EXCEPT !.OS = getOS(host.osRelease)]
    /\ handles' = Release(handles, OSReleasePath)
    /\ pc' = "runCmd"
    /\ UNCHANGED <<host, given, pct, i, out>>

\* Kernel: runCmd("uname", "-r")
RunUname ==
    /\ pc = "runCmd"
    /\ info' = [info EXCEPT !.Kernel = runCmd(host.uname)]
    /\ pc' = "arch"
    /\ UNCHANGED <<host, given, handles, pct, i, out>>

\* Arch: runtime.GOARCH
SetArch ==
    /\ pc = "arch"
    /\ info' = [info EXCEPT !.Arch = GOARCH]
    /\ pc' = "env_HOSTNAME"
    /\ UNCHANGED <<host, given, handles, pct, i, out>>

GetHost ==
    /\ pc = "env_HOSTNAME"
    /\ info' = [info EXCEPT !.Host = getEnvOrDefault(host.env, "HOSTNAME", NA)]
    /\ pc' = "env_USER"
    /\ UNCHANGED <<host, given, handles, pct, i, out>>

GetUser ==
    /\ pc = "env_USER"
    /\ info' = [info EXCEPT !.User = getEnvOrDefault(host.env, "USER", NA)]
    /\ pc' = "env_SHELL"
    /\ UNCHANGED <<host, given, handles, pct, i, out>>

GetShell ==
    /\ pc = "env_SHELL"
    /\ info' = [info EXCEPT !.Shell = getEnvOrDefault(host.env, "SHELL", NA)]
    /\ pc' = "env_TERM"
    /\ UNCHANGED <<host, given, handles, pct, i, out>>

GetTerm ==
    /\ pc = "env_TERM"
    /\ info' = [info EXCEPT !.Term = getEnvOrDefault(host.env, "TERM", NA)]
    /\ pc' = "getCPU"
    /\ UNCHANGED <<host, given, handles, pct, i, out>>

GetCPUOpen ==
    /\ pc = "getCPU"
    /\ IF host.cpuinfo.err
       THEN /\ info' = [info EXCEPT !.CPU = getCPU(host.cpuinfo)]
            /\ pc' = "getUptime"
            /\ UNCHANGED handles
       ELSE /\ handles' = handles \cup {CPUInfoPath}
            /\ pc' = "getCPU_scan"
            /\ UNCHANGED info
    /\ UNCHANGED <<host, given, pct, i, out>>

GetCPUScan ==
    /\ pc = "getCPU_scan"
    /\ info' = [info EXCEPT !.CPU = getCPU(host.cpuinfo)]
    /\ handles' = Release(handles, CPUInfoPath)
    /\ pc' = "getUptime"
    /\ UNCHANGED <<host, given, pct, i, out>>

\* os.ReadFile opens the file, ...
GetUptimeOpen ==
    /\ pc = "getUptime"
    /\ IF host.uptime.err
       THEN /\ \E u \in getUptime(host.uptime) : info' = [info EXCEPT !.Uptime = u]
            /\ pc' = "getMemory"
            /\ UNCHANGED handles
       ELSE /\ handles' = handles \cup {UptimePath}
            /\ pc' = "getUptime_read"
            /\ UNCHANGED info
    /\ UNCHANGED <<host, given, pct, i, out>>

\* ... reads it and closes it; getUptime then parses and formats
GetUptimeRead ==
    /\ pc = "getUptime_read"
    /\ \E u \in getUptime(host.uptime) : info' = [info EXCEPT !.Uptime = u]
    /\ handles' = Release(handles, UptimePath)
    /\ pc' = "getMemory"
    /\ UNCHANGED <<host, given, pct, i, out>>

GetMemoryOpen ==
    /\ pc = "getMemory"
    /\ IF host.meminfo.err
       THEN /\ info' = [info EXCEPT !.MemTotal = getMemory(host.meminfo).total,
                                    !.MemUsed = getMemory(host.meminfo).used]
            /\ pc' = "getDisk"
            /\ UNCHANGED handles
       ELSE /\ handles' = handles \cup {MeminfoPath}
            /\ pc' = "getMemory_scan"
            /\ UNCHANGED info
    /\ UNCHANGED <<host, given, pct, i, out>>

GetMemoryScan ==
    /\ pc = "getMemory_scan"
    /\ info' = [info EXCEPT !.MemTotal = getMemory(host.meminfo).total,
                            !.MemUsed = getMemory(host.meminfo).used]
    /\ handles' = Release(handles, MeminfoPath)
    /\ pc' = "getDisk"
    /\ UNCHANGED <<host, given, pct, i, out>>

\* getDisk("/"), after which getSystemInfo returns and main calls printInfo
GetDisk ==
    /\ pc = "getDisk"
    /\ info' = [info EXCEPT !.DiskTotal = getDisk(host.statfs).total,
                            !.DiskUsed = getDisk(host.statfs).used]
    /\ pc' = "printInfo"
    /\ UNCHANGED <<host, given, handles, pct, i, out>>

\* printInfo up to its loop: the two percentages
PrintPercent ==
    /\ pc = "printInfo"
    /\ pct' = [mem  |-> IF MemTotalPositive(info.MemTotal)
                        THEN PercentOf(info.MemUsed, info.MemTotal)
                        ELSE NoPercent,
               disk |-> IF DiskTotalPositive(info.DiskTotal)
                        THEN PercentOf(info.DiskUsed, info.DiskTotal)
                        ELSE NoPercent,
               divs |-> (IF MemTotalPositive(info.MemTotal)
                         THEN <<[of |-> "mem", by |-> info.MemTotal]>> ELSE <<>>)
                        \o (IF DiskTotalPositive(info.DiskTotal)
                            THEN <<[of |-> "disk", by |-> info.DiskTotal]>> ELSE <<>>)]
    /\ i' = 0
    /\ pc' = "print"
    /\ UNCHANGED <<host, given, info, handles, out>>

\* one pass of printInfo's loop, or its exit
PrintLine ==
    /\ pc = "print"
    /\ IF i < MaxLines(Logo, DataLines(info, pct))
       THEN /\ out' = Append(out, [logo |-> LineAt(Logo, i),
                                   data |-> LineAt(DataLines(info, pct), i)])
            /\ i' = i + 1
            /\ UNCHANGED pc
       ELSE /\ pc' = "done"
            /\ UNCHANGED <<i, out>>
    /\ UNCHANGED <<host, given, info, handles, pct>>

Collect ==
    \/ GetOSOpen \/ GetOSScan \/ RunUname \/ SetArch
    \/ GetHost \/ GetUser \/ GetShell \/ GetTerm
    \/ GetCPUOpen \/ GetCPUScan \/ GetUptimeOpen \/ GetUptimeRead
    \/ GetMemoryOpen \/ GetMemoryScan \/ GetDisk

Present == PrintPercent \/ PrintLine

Next == Collect \/ Present

-----------------------------------------------------------------------------
(* The host environment.  `given` describes the sources; HostOf builds the  *)
(* bytes, variables and statfs results the resolvers read from it.          *)

File(lines) == [err |-> FALSE, lines |-> lines]

NoFile == [err |-> TRUE, lines |-> <<>>]

RECURSIVE Quotes(_)
Quotes(n) == IF n = 0 THEN <<>> ELSE <<"\"">> \o Quotes(n - 1)

TestOSName == <<"T", "e", "s", "t", " ", "O", "S", " ", "1", ".", "0">>

NameLine == <<"N", "A", "M", "E", "=", "\"", "T", "e", "s", "t", "\"">>

IdLine == <<"I", "D", "=", "t", "e", "s", "t">>

OtherPrettyLine == PrettyKey \o <<"\"", "O", "t", "h", "e", "r", " ", "O", "S", "\"">>

PrettyLine(os) == PrettyKey \o Quotes(os.quotes) \o os.value \o Quotes(os.quotes)

OSReleaseOf(os) ==
    CASE os.layout = "missing"  -> NoFile
      [] os.layout = "none"     -> File(<<NameLine, IdLine>>)
      [] os.layout = "indented" -> File(<<<<" ">> \o PrettyLine(os), IdLine>>)
      [] os.layout = "first"    -> File(<<PrettyLine(os), IdLine>>)
      [] os.layout = "after"    -> File(<<NameLine, PrettyLine(os), IdLine>>)
      [] os.layout = "twice"    -> File(<<NameLine, PrettyLine(os), OtherPrettyLine>>)

UnameOf(st) ==
    IF st = "ok" THEN [err |-> FALSE, out |-> <<"6", ".", "1", ".", "0", "-", "t", "e", "s", "t", "\n">>]
    ELSE [err |-> TRUE, out |-> <<>>]

EnvKeys == {"HOSTNAME", "USER", "SHELL", "TERM"}

EnvValue(key) ==
    CASE key = "HOSTNAME" -> <<"b", "o", "x">>
      [] key = "USER"     -> <<"a", "n", "a">>
      [] key = "SHELL"    -> <<"/", "b", "i", "n", "/", "s", "h">>
      [] key = "TERM"     -> <<"x", "t", "e", "r", "m">>

EnvOf(env) ==
    [key \in EnvKeys |->
        CASE env[key] = "ok"    -> [set |-> TRUE, val |-> EnvValue(key)]
          [] env[key] = "empty" -> [set |-> TRUE, val |-> <<>>]
          [] env[key] = "unset" -> [set |-> FALSE, val |-> <<>>]]

TestCPUName == <<"T", "e", "s", "t", " ", "C", "P", "U", " ", "@", " ", "1", "G", "H", "z">>

CPUInfoOf(st) ==
    CASE st = "missing" -> NoFile
      [] st = "nocolon" -> File(<<<<"p", "r", "o", "c", "e", "s", "s", "o", "r", "\t", ":", " ", "0">>, <<"m", "o", "d", "e", "l", " ", "n", "a", "m", "e", " ", "T", "e", "s", "t", " ", "C", "P", "U">>>>)
      [] st = "ok"      -> File(<<<<"p", "r", "o", "c", "e", "s", "s", "o", "r", "\t", ":", " ", "0">>, <<"m", "o", "d", "e", "l", " ", "n", "a", "m", "e", "\t", ":", " ", "T", "e", "s", "t", " ", "C", "P", "U", " ", "@", " ", "1", "G", "H", "z">>, <<"m", "o", "d", "e", "l", " ", "n", "a", "m", "e", "\t", ":", " ", "O", "t", "h", "e", "r", " ", "C", "P", "U">>>>)

\* the uptime file: the seconds since boot and the idle seconds
UptimeOf(up) ==
    CASE up.layout = "missing" -> [err |-> TRUE, data |-> <<>>]
      [] up.layout = "empty"   -> [err |-> FALSE, data |-> <<"\n">>]
      [] up.layout = "garbage" -> [err |-> FALSE, data |-> <<"x", " ", "1", ".", "0", "\n">>]
      [] up.layout = "ok"      ->
            [err |-> FALSE, data |-> Itoa(up.seconds) \o up.frac \o <<" ", "1", ".", "0", "\n">>]
      [] up.layout \in {"token", "rejected", "unbounded"} ->
            [err |-> FALSE, data |-> up.token \o <<" ", "1", ".", "0", "\n">>]

\* the int n (within 32 bits) as sign and magnitude
Int64Of(n) == [neg |-> n < 0, mag |-> BigFromNat(IF n < 0 THEN -n ELSE n)]

\* a line of the memory-info file: the label, the number as written, the unit
MemLine(key, text) == key \o <<" ", " ", " ", " ">> \o text \o <<" ", "k", "B">>

\* numbers as they can stand on a line: text is what is written; kind is
\* "int" for an integer an int holds, "range" for an integer outside int and
\* "syntax" for anything else; mb is the integer written divided by 1024
\* (truncating)
MemTokens ==
    <<[text |-> <<"9", "2", "2", "3", "3", "7", "2", "0", "3", "6", "8", "5", "4", "7", "7", "5", "8", "0", "7">>, kind |-> "int",
       mb |-> [neg |-> FALSE, mag |-> BigSub(BigPow2(53), <<1>>)]],
      [text |-> <<"-", "9", "2", "2", "3", "3", "7", "2", "0", "3", "6", "8", "5", "4", "7", "7", "5", "8", "0", "8">>, kind |-> "int",
       mb |-> [neg |-> TRUE, mag |-> BigPow2(53)]],
      [text |-> <<"4", "2", "9", "4", "9", "6", "7", "2", "9", "6">>, kind |-> "int",
       mb |-> [neg |-> FALSE, mag |-> BigPow2(22)]],
      [text |-> <<"+", "4", "0", "9", "6">>, kind |-> "int", mb |-> Int64Of(4)],
      [text |-> <<"0", "0", "0", "0", "0", "0", "0", "0", "0", "0", "0", "0", "0", "0", "0", "0", "0", "0", "0", "0", "0", "2", "0", "4", "8">>, kind |-> "int", mb |-> Int64Of(2)],
      [text |-> <<"9", "2", "2", "3", "3", "7", "2", "0", "3", "6", "8", "5", "4", "7", "7", "5", "8", "0", "8">>, kind |-> "range",
       mb |-> [neg |-> FALSE, mag |-> BigPow2(53)]],
      [text |-> <<"9", "9", "9", "9", "9", "9", "9", "9", "9", "9", "9", "9", "9", "9", "9", "9", "9", "9", "9", "9">>, kind |-> "range",
       mb |-> [neg |-> FALSE,
               mag |-> BigMul(BigFromNat(976562500), BigFromNat(100000000))]],
      [text |-> <<"-", "9", "2", "2", "3", "3", "7", "2", "0", "3", "6", "8", "5", "4", "7", "7", "5", "8", "0", "9">>, kind |-> "range",
       mb |-> [neg |-> TRUE, mag |-> BigPow2(53)]],
      [text |-> <<"-", "9", "9", "9", "9", "9", "9", "9", "9", "9", "9", "9", "9", "9", "9", "9", "9", "9", "9", "9", "9">>, kind |-> "range",
       mb |-> [neg |-> TRUE,
               mag |-> BigMul(BigFromNat(976562500), BigFromNat(100000000))]],
      [text |-> <<"1", "_", "0">>, kind |-> "syntax", mb |-> Int64Of(0)],
      [text |-> <<"0", "x", "1", "0">>, kind |-> "syntax", mb |-> Int64Of(0)],
      [text |-> <<"1", "2", "a">>, kind |-> "syntax", mb |-> Int64Of(0)],
      [text |-> <<"+">>, kind |-> "syntax", mb |-> Int64Of(0)],
      [text |-> <<"1", "U+00E9", "2">>, kind |-> "syntax", mb |-> Int64Of(0)],
      [text |-> <<"9", "9", "9", "9", "9", "9", "9", "9", "9", "9", "9", "9", "9", "9", "9", "9", "9", "9", "9", "9", "x">>, kind |-> "syntax", mb |-> Int64Of(0)]>>

MemFreeKey == <<"M", "e", "m", "F", "r", "e", "e", ":">>

BuffersKey == <<"B", "u", "f", "f", "e", "r", "s", ":">>

MeminfoOf(mem) ==
    CASE mem.layout = "missing"   -> NoFile
      [] mem.layout = "standard"  ->
            File(<<MemLine(MemTotalKey, Itoa(mem.T)), MemLine(MemFreeKey, <<"5">>),
                   MemLine(MemAvailableKey, Itoa(mem.A)), MemLine(BuffersKey, <<"7">>)>>)
      [] mem.layout = "reversed"  ->
            File(<<MemLine(MemAvailableKey, Itoa(mem.A)), <<"x">>,
                   MemLine(MemTotalKey, Itoa(mem.T))>>)
      [] mem.layout = "repeated"  ->
            File(<<MemLine(MemTotalKey, Itoa(mem.T)), MemLine(MemAvailableKey, Itoa(mem.A)),
                   MemLine(MemTotalKey, Itoa(mem.T + 2 * KBPerMB)),
                   MemLine(MemAvailableKey, Itoa(mem.A + KBPerMB))>>)
      [] mem.layout = "availOnly" ->
            File(<<MemLine(MemFreeKey, <<"5">>), MemLine(MemAvailableKey, Itoa(mem.A))>>)
      [] mem.layout = "totalToken" ->
            File(<<MemLine(MemTotalKey, MemTokens[mem.tok].text),
                   MemLine(MemAvailableKey, Itoa(mem.A))>>)
      [] mem.layout = "availToken" ->
            File(<<MemLine(MemTotalKey, Itoa(mem.T)),
                   MemLine(MemAvailableKey, MemTokens[mem.tok].text)>>)

HostOf(g) ==
    [osRelease |-> OSReleaseOf(g.os),
     uname     |-> UnameOf(g.uname),
     env       |-> EnvOf(g.env),
     cpuinfo   |-> CPUInfoOf(g.cpu),
     uptime    |-> UptimeOf(g.up),
     meminfo   |-> MeminfoOf(g.mem),
     statfs    |-> g.disk]

\* a host on which every source is available and well-formed
BaseGiven ==
    [os    |-> [layout |-> "after", value |-> TestOSName, quotes |-> 1],
     uname |-> "ok",
     env   |-> [key \in EnvKeys |-> "ok"],
     cpu   |-> "ok",
     up    |-> [layout |-> "ok", seconds |-> 90061, frac |-> <<".", "5", "0">>,
                token |-> <<>>],
     mem   |-> [layout |-> "standard", T |-> 8000000, A |-> 2000000, tok |-> 0],
     disk  |-> [err |-> FALSE,
                Blocks |-> BigMul(BigFromNat(100), BigPow2(18)),
                Bavail |-> BigMul(BigFromNat(40), BigPow2(18)),
                Bsize  |-> BigPow2(12)]]

\* the state main starts in, on the host that g describes
Start(g) ==
    /\ given = g
    /\ host = HostOf(g)
    /\ pc = "getOS"
    /\ info = ZeroInfo
    /\ handles = {}
    /\ pct = NoPct
    /\ i = 0
    /\ out = <<>>

-----------------------------------------------------------------------------
(* Specifications.  Every one runs main from its start; they differ in the  *)
(* hosts they range over.                                                   *)

\* Spec: every combination of available, unavailable and malformed sources
Init ==
    \E osl \in {"after", "missing", "none"}, un \in {"ok", "missing"},
       hn \in {"ok", "unset", "empty"}, us \in {"ok", "unset"},
       sh \in {"ok", "empty"}, tm \in {"ok", "unset"},
       cp \in {"ok", "missing", "nocolon"},
       upl \in {"ok", "missing", "garbage", "unbounded"},
       ml \in {"standard", "missing", "availOnly"},
       derr \in BOOLEAN :
        Start([BaseGiven EXCEPT
                 !.os.layout = osl, !.uname = un,
                 !.env = [key \in EnvKeys |->
                             CASE key = "HOSTNAME" -> hn [] key = "USER" -> us
                               [] key = "SHELL" -> sh [] key = "TERM" -> tm],
                 !.cpu = cp, !.up.layout = upl,
                 !.up.token = (IF upl = "unbounded" THEN NaNText ELSE <<>>),
                 !.mem.layout = ml,
                 !.disk.err = derr])

Spec == Init /\ [][Next]_vars

\* SpecUptime: the contents of the uptime file
MaxDays == 2

UptimeSeconds ==
    {sg * (d * SecondsPerDay + h * SecondsPerHour + m * SecondsPerMinute + sc) :
        sg \in {1, -1}, d \in 0..MaxDays, h \in {0, 1, 23}, m \in {0, 1, 59},
        sc \in {0, 1, 59}}

UptimeFracs == {<<>>, <<".", "5", "0">>, <<".", "9", "9">>}

\* first tokens in the other forms strconv.ParseFloat accepts (exponent,
\* hexadecimal, underscores, more digits than a float64 holds) and first
\* tokens set off by other spaces than " ", each with the seconds int() makes
\* of it
UptimeTokens ==
    <<[token |-> <<"1", "e", "3">>, seconds |-> 1000],
      [token |-> <<"0", "x", "1", "p", "4">>, seconds |-> 16],
      [token |-> <<"1", "_", "0">>, seconds |-> 10],
      [token |-> <<"5", "9", ".", "9", "9", "9", "9", "9", "9", "9", "9", "9", "9", "9", "9", "9", "9", "9", "9", "9", "9", "9", "9">>, seconds |-> 60],
      [token |-> <<"3", "5", "9", "9", ".", "9", "9", "9", "9", "9", "9", "9", "9", "9", "9", "9", "9", "9", "9", "9", "9">>, seconds |-> 3600],
      [token |-> <<"8", ".", "6", "4", "e", "4">>, seconds |-> 86400],
      [token |-> <<"+", "9", "_", "0", "0", "6", "1", ".", "5", "E", "0">>, seconds |-> 90061],
      [token |-> <<"-", "1", "e", "2">>, seconds |-> -100],
      [token |-> <<".", "5", "e", "1">>, seconds |-> 5],
      [token |-> <<"0", "X", "1", ".", "8", "P", "+", "1">>, seconds |-> 3],
      [token |-> <<"3", "6", "6", "1", "0", "e", "-", "1">>, seconds |-> 3661],
      [token |-> <<"1", "e", "-", "4", "0", "0">>, seconds |-> 0],
      [token |-> <<"-", "0", ".", "9">>, seconds |-> 0],
      [token |-> <<"U+00A0", "6", "0", "U+2003", "x">>, seconds |-> 60],
      [token |-> <<"", "3", "6", "6", "1", "U+3000", "1", "e", "9">>, seconds |-> 3661]>>

\* first tokens strconv.ParseFloat rejects (syntax or range)
BadUptimeTokens ==
    {<<"1", "_", "_", "0">>,
     <<"_", "1">>,
     <<"1", "e">>,
     <<"0", "x", "1">>,
     <<"i", "n", "f", "i">>,
     <<"+", "n", "a", "n">>,
     <<"1", ".", "2", ".", "3">>,
     <<"1", "e", "4", "0", "0">>,
     <<"0", "x", "1", "p", "1", "0", "2", "4">>,
     <<"1", "_">>,
     <<"1", "U+00E9", "2">>,
     <<"6", "0", "U+200B">>,
     <<"U+0416", "6", "0">>}

\* first tokens whose float64 is NaN, an infinity or outside int
UnboundedUptimeTokens ==
    {<<"i", "n", "f">>,
     <<"-", "I", "n", "f", "i", "n", "i", "t", "y">>,
     <<"N", "a", "N">>,
     <<"1", "e", "1", "9">>,
     <<"-", "1", "e", "1", "9">>,
     <<"9", "2", "2", "3", "3", "7", "2", "0", "3", "6", "8", "5", "4", "7", "7", "5", "8", "0", "7">>}

InitUptime ==
    \/ \E l \in {"missing", "empty", "garbage"} :
           Start([BaseGiven EXCEPT !.up = [layout |-> l, seconds |-> 0, frac |-> <<>>,
                                           token |-> <<>>]])
    \/ \E sec \in UptimeSeconds, fr \in UptimeFracs :
           Start([BaseGiven EXCEPT !.up = [layout |-> "ok", seconds |-> sec, frac |-> fr,
                                           token |-> <<>>]])
    \/ \E k \in 1..Len(UptimeTokens) :
           Start([BaseGiven EXCEPT !.up = [layout |-> "token",
                                           seconds |-> UptimeTokens[k].seconds,
                                           frac |-> <<>>,
                                           token |-> UptimeTokens[k].token]])
    \/ \E tok \in BadUptimeTokens :
           Start([BaseGiven EXCEPT !.up = [layout |-> "rejected", seconds |-> 0,
                                           frac |-> <<>>, token |-> tok]])
    \/ \E tok \in UnboundedUptimeTokens :
           Start([BaseGiven EXCEPT !.up = [layout |-> "unbounded", seconds |-> 0,
                                           frac |-> <<>>, token |-> tok]])

SpecUptime == InitUptime /\ [][Next]_vars

\* SpecMemory: the contents of the memory-info file
MaxMB == 2

MemKB ==
    {k * KBPerMB + r : k \in 0..MaxMB, r \in {0, 1, KBPerMB - 1}}
        \cup {2000000, 8000000, -1, -2 * KBPerMB}

\* the numbers written beside a line of MemTokens
MemKBBeside == {0, 1, 2 * KBPerMB, 8000000, -2 * KBPerMB}

InitMemory ==
    \/ \E l \in {"standard", "reversed", "repeated", "availOnly", "missing"} :
           \E t \in (IF l = "missing" THEN {0} ELSE MemKB),
              a \in (IF l = "missing" THEN {0} ELSE MemKB) :
               Start([BaseGiven EXCEPT !.mem = [layout |-> l, T |-> t, A |-> a, tok |-> 0]])
    \/ \E k \in 1..Len(MemTokens), a \in MemKBBeside :
           Start([BaseGiven EXCEPT
                    !.mem = [layout |-> "totalToken", T |-> 0, A |-> a, tok |-> k]])
    \/ \E k \in 1..Len(MemTokens), tt \in MemKBBeside :
           Start([BaseGiven EXCEPT
                    !.mem = [layout |-> "availToken", T |-> tt, A |-> 0, tok |-> k]])

SpecMemory == InitMemory /\ [][Next]_vars

\* SpecDisk: the results of statfs
DiskCounts ==
    {<<>>, <<1>>, <<2>>, BigFromNat(100),
     BigMul(BigFromNat(40), BigPow2(18)), BigMul(BigFromNat(100), BigPow2(18)),
     BigSub(BigPow2(54), <<1>>), BigPow2(63)}

DiskBlockSizes == {<<1>>, BigPow2(12), BigPow2(30)}

InitDisk ==
    \E e \in BOOLEAN :
        \E b \in (IF e THEN {<<>>} ELSE DiskCounts),
           v \in (IF e THEN {<<>>} ELSE DiskCounts),
           sz \in (IF e THEN {<<1>>} ELSE DiskBlockSizes) :
            Start([BaseGiven EXCEPT
                     !.disk = [err |-> e, Blocks |-> b, Bavail |-> v, Bsize |-> sz]])

SpecDisk == InitDisk /\ [][Next]_vars

\* SpecOS: the contents of the OS-release file
MaxQuotes == 2

OSValues == {TestOSName, <<"A", "r", "c", "h">>, <<>>, <<"5", "\"", " ", "L", "C", "D">>}

InitOS ==
    \E l \in {"missing", "none", "indented", "first", "after", "twice"},
       v \in OSValues, q \in 0..MaxQuotes :
        Start([BaseGiven EXCEPT !.os = [layout |-> l, value |-> v, quotes |-> q]])

SpecOS == InitOS /\ [][Next]_vars

\* SpecPrint: printInfo on any snapshot
MaxPrint == 2

InitPrint ==
    \E mu \in -1..MaxPrint, mt \in -1..MaxPrint, du \in 0..MaxPrint, dt \in 0..MaxPrint :
        /\ given = BaseGiven
        /\ host = HostOf(BaseGiven)
        /\ pc = "printInfo"
        /\ info = [OS |-> TestOSName, Kernel |-> <<"6", ".", "1", ".", "0", "-", "t", "e", "s", "t">>, Arch |-> GOARCH,
                   Host |-> EnvValue("HOSTNAME"), User |-> EnvValue("USER"),
                   Shell |-> EnvValue("SHELL"), Term |-> NA,
                   CPU |-> TestCPUName, Uptime |-> <<"1", "d", " ", "1", "h", " ", "1", "m">>,
                   MemUsed |-> Int64Of(mu), MemTotal |-> Int64Of(mt),
                   DiskUsed |-> BigFromNat(du), DiskTotal |-> BigFromNat(dt)]
        /\ handles = {}
        /\ pct = NoPct
        /\ i = 0
        /\ out = <<>>

SpecPrint == InitPrint /\ [][Present]_vars

-----------------------------------------------------------------------------
(* Where main is.                                                           *)

PcSeq ==
    <<"getOS", "getOS_scan", "runCmd", "arch", "env_HOSTNAME", "env_USER",
      "env_SHELL", "env_TERM", "getCPU", "getCPU_scan", "getUptime",
      "getUptime_read", "getMemory", "getMemory_scan", "getDisk", "printInfo",
      "print", "done">>

PcIndex(p) == CHOOSE k \in 1..Len(PcSeq) : PcSeq[k] = p

\* main is past position p: the step at p has been taken
Past(p) == PcIndex(pc) > PcIndex(p)

-----------------------------------------------------------------------------
(* Claims.                                                                  *)

Max(a, b) == IF a > b THEN a ELSE b

\* x <= y on ints kept as sign and magnitude
Int64Leq(x, y) ==
    IF x.neg # y.neg THEN x.neg
    ELSE IF x.neg THEN BigLeq(y.mag, x.mag)
    ELSE BigLeq(x.mag, y.mag)

\* x div y truncated toward zero, y > 0
Quot(x, y) == IF x >= 0 THEN x \div y ELSE -((-x) \div y)

\* "<days>d <hours>h <minutes>m", or "<hours>h <minutes>m" when days is zero
UptimeText(d, h, m) ==
    IF d > 0
    THEN Itoa(d) \o <<"d", " ">> \o Itoa(h) \o <<"h", " ">> \o Itoa(m) \o <<"m">>
    ELSE Itoa(h) \o <<"h", " ">> \o Itoa(m) \o <<"m">>

\* the decomposition of s seconds with hours in 0..23 and minutes in 0..59
UptimeExpected(s) ==
    UptimeText(s \div 86400, (s % 86400) \div 3600, (s % 3600) \div 60)

\* C3 as stated: for every integer number of seconds s read from the uptime
\* file, getUptime returns the text of days = s div 86400, hours in 0..23 and
\* minutes in 0..59, the days unit omitted exactly when days is zero.
C3_AsStated ==
    (Past("getUptime_read") /\ given.up.layout \in {"ok", "token"})
        => info.Uptime = UptimeExpected(given.up.seconds)

\* C3 (amended): for every non-negative integer number of seconds s read from
\* the uptime file, getUptime returns "<days>d <hours>h <minutes>m" when
\* days > 0 and "<hours>h <minutes>m" otherwise, with days = s div 86400,
\* hours = (s mod 86400) div 3600 in 0..23 and minutes = (s mod 3600) div 60
\* in 0..59; 90061 gives "1d 1h 1m", 3661 gives "1h 1m", 59 gives "0h 0m".
C3_UptimeFormat ==
    (Past("getUptime_read") /\ given.up.layout \in {"ok", "token"} /\ given.up.seconds >= 0)
        => /\ info.Uptime = UptimeExpected(given.up.seconds)
           /\ given.up.seconds = 90061 => info.Uptime = <<"1", "d", " ", "1", "h", " ", "1", "m">>
           /\ given.up.seconds = 3661 => info.Uptime = <<"1", "h", " ", "1", "m">>
           /\ given.up.seconds = 59 => info.Uptime = <<"0", "h", " ", "0", "m">>

C3_Witness ==
    /\ pc = "done"
    /\ given.up.layout = "ok"
    /\ given.up.seconds = 90061
    /\ info.Uptime = <<"1", "d", " ", "1", "h", " ", "1", "m">>

\* C4 as stated: from a readable memory-info file whose MemTotal line carries
\* T kB and whose MemAvailable line carries A kB, getMemory returns
\* Total = T div 1024 and Used = Total - (A div 1024), truncating, for every
\* integer written on either line; 8000000 and 2000000 give 7812 and 5859;
\* an unopenable file gives 0 and 0.
C4_AsStated ==
    Past("getMemory_scan") =>
        /\ given.mem.layout \in {"standard", "reversed"} =>
              /\ info.MemTotal = Int64Of(Quot(given.mem.T, 1024))
              /\ info.MemUsed = Int64Of(Quot(given.mem.T, 1024) - Quot(given.mem.A, 1024))
        /\ (given.mem.layout \in {"standard", "reversed"}
               /\ given.mem.T = 8000000 /\ given.mem.A = 2000000) =>
              (info.MemTotal = Int64Of(7812) /\ info.MemUsed = Int64Of(5859))
        /\ (given.mem.layout = "totalToken"
               /\ MemTokens[given.mem.tok].kind \in {"int", "range"}) =>
              /\ info.MemTotal = MemTokens[given.mem.tok].mb
              /\ info.MemUsed = SubInt64(MemTokens[given.mem.tok].mb,
                                         Int64Of(Quot(given.mem.A, 1024)))
        /\ (given.mem.layout = "availToken"
               /\ MemTokens[given.mem.tok].kind \in {"int", "range"}) =>
              /\ info.MemTotal = Int64Of(Quot(given.mem.T, 1024))
              /\ info.MemUsed = SubInt64(Int64Of(Quot(given.mem.T, 1024)),
                                         MemTokens[given.mem.tok].mb)
        /\ given.mem.layout = "missing" => (info.MemTotal = Zero64 /\ info.MemUsed = Zero64)

\* the number of lines that begin with key
RECURSIVE CountPrefix(_, _)
CountPrefix(lines, key) ==
    IF lines = <<>> THEN 0
    ELSE (IF HasPrefix(lines[1], key) THEN 1 ELSE 0) + CountPrefix(Tail(lines), key)

\* C5 as stated: for every sequence of lines of the memory-info file,
\* getMemory returns what the scan over all lines, without the early exit,
\* returns.
C5_AsStated ==
    (Past("getMemory_scan") /\ ~host.meminfo.err) =>
        [total |-> info.MemTotal, used |-> info.MemUsed]
            = getMemoryScan(host.meminfo.lines, FALSE)

\* C5 (amended): for every memory-info file in which at most one line begins
\* with MemTotal: and at most one with MemAvailable:, getMemory returns what
\* the scan over all lines, without the early exit, returns.
C5_EarlyExitPure ==
    (/\ Past("getMemory_scan") /\ ~host.meminfo.err
     /\ CountPrefix(host.meminfo.lines, MemTotalKey) <= 1
     /\ CountPrefix(host.meminfo.lines, MemAvailableKey) <= 1) =>
        [total |-> info.MemTotal, used |-> info.MemUsed]
            = getMemoryScan(host.meminfo.lines, FALSE)

\* the early exit was taken with a line left unread
C5_Witness ==
    /\ pc = "done"
    /\ given.mem.layout = "standard"
    /\ given.mem.T = 8000000 /\ given.mem.A = 2000000
    /\ Len(host.meminfo.lines) = 4
    /\ info.MemTotal = Int64Of(7812) /\ info.MemUsed = Int64Of(5859)

\* C1 as stated: in the snapshot, for the memory pair and for the disk pair,
\* Total >= Used whenever the source was read, and both are 0 whenever the
\* source is unavailable, for every memory-info content and every statfs
\* result.
C1_AsStated ==
    Past("getDisk") =>
        /\ IF host.meminfo.err
           THEN info.MemTotal = Zero64 /\ info.MemUsed = Zero64
           ELSE Int64Leq(info.MemUsed, info.MemTotal)
        /\ IF host.statfs.err
           THEN info.DiskTotal = <<>> /\ info.DiskUsed = <<>>
           ELSE BigLeq(info.DiskUsed, info.DiskTotal)

\* C6 as stated: with total = B*S and free = V*S in uint64, getDisk returns
\* Total = total div 2^30 and Used = the truncated gigabytes of the
\* mathematical difference total - free, for every statfs result; 0 and 0
\* when statfs fails.  (A negative difference truncates to 0 when it is
\* above -2^30 and to a negative number otherwise.)
C6_AsStated ==
    Past("getDisk") =>
        IF host.statfs.err
        THEN info.DiskTotal = <<>> /\ info.DiskUsed = <<>>
        ELSE LET total == MulU64(host.statfs.Blocks, host.statfs.Bsize)
                 free  == MulU64(host.statfs.Bavail, host.statfs.Bsize)
             IN  /\ info.DiskTotal = BigShr30(total)
                 /\ IF BigLeq(free, total)
                    THEN info.DiskUsed = BigShr30(BigSub(total, free))
                    ELSE /\ BigLess(BigSub(free, total), BigPow2(30))
                         /\ info.DiskUsed = <<>>

\* the values each field has on a host whose sources are all well
Healthy ==
    [OS |-> TestOSName, Kernel |-> <<"6", ".", "1", ".", "0", "-", "t", "e", "s", "t">>, Arch |-> GOARCH,
     Host |-> EnvValue("HOSTNAME"), User |-> EnvValue("USER"),
     Shell |-> EnvValue("SHELL"), Term |-> EnvValue("TERM"),
     CPU |-> TestCPUName, Uptime |-> <<"1", "d", " ", "1", "h", " ", "1", "m">>,
     MemUsed |-> Int64Of(5859), MemTotal |-> Int64Of(7812),
     DiskUsed |-> <<60>>, DiskTotal |-> <<100>>]

EnvExpected(key) == IF given.env[key] = "ok" THEN EnvValue(key) ELSE NA

\* C2 as stated: getSystemInfo returns a complete record in which each field
\* whose source is unavailable or malformed holds its fallback ("N/A", the
\* platform identifier, or 0 and 0) and every other field holds the value it
\* has when its source does not fail.
C2_AsStated ==
    Past("getDisk") =>
        /\ info.OS = (IF given.os.layout = "after" THEN Healthy.OS ELSE GOOS)
        /\ info.Kernel = (IF given.uname = "ok" THEN Healthy.Kernel ELSE NA)
        /\ info.Arch = Healthy.Arch
        /\ info.Host = EnvExpected("HOSTNAME")
        /\ info.User = EnvExpected("USER")
        /\ info.Shell = EnvExpected("SHELL")
        /\ info.Term = EnvExpected("TERM")
        /\ info.CPU = (IF given.cpu = "ok" THEN Healthy.CPU ELSE NA)
        /\ info.Uptime = (IF given.up.layout = "ok" THEN Healthy.Uptime ELSE NA)
        /\ IF given.mem.layout = "standard"
           THEN info.MemTotal = Healthy.MemTotal /\ info.MemUsed = Healthy.MemUsed
           ELSE info.MemTotal = Zero64 /\ info.MemUsed = Zero64
        /\ IF ~given.disk.err
           THEN info.DiskTotal = Healthy.DiskTotal /\ info.DiskUsed = Healthy.DiskUsed
           ELSE info.DiskTotal = <<>> /\ info.DiskUsed = <<>>

\* C7: printInfo never divides by a zero total: each percentage is
\* used / total * 100 only when its total is non-zero, and is exactly 0 when
\* its total is 0, for every snapshot.
C7_NoZeroDivision ==
    Past("printInfo") =>
        /\ \A k \in 1..Len(pct.divs) :
              /\ pct.divs[k].of = "mem" => pct.divs[k].by # Zero64
              /\ pct.divs[k].of = "disk" => pct.divs[k].by # <<>>
        /\ info.MemTotal = Zero64 => pct.mem = NoPercent
        /\ info.DiskTotal = <<>> => pct.disk = NoPercent
        /\ pct.mem.div =>
              (info.MemTotal # Zero64 /\ pct.mem = PercentOf(info.MemUsed, info.MemTotal))
        /\ pct.disk.div =>
              (info.DiskTotal # <<>> /\ pct.disk = PercentOf(info.DiskUsed, info.DiskTotal))

C7_Witness ==
    /\ pc = "done"
    /\ info.MemTotal = Zero64 /\ info.MemUsed = Int64Of(1) /\ pct.mem = NoPercent
    /\ info.DiskTotal = <<2>> /\ pct.disk = PercentOf(info.DiskUsed, <<2>>)
    /\ pct.divs = <<[of |-> "disk", by |-> <<2>>]>>

\* C8: printInfo writes exactly max(graphic lines, data lines) lines, in
\* index order; line k combines graphic line k with data line k, the empty
\* string standing in past the end of either; none is skipped, duplicated or
\* reordered, and the loop ends after the last index.
C8_Interleave ==
    /\ Past("printInfo") =>
          /\ Len(out) = i
          /\ Len(out) <= Max(Len(Logo), Len(DataLines(info, pct)))
          /\ \A k \in 1..Len(out) :
                /\ out[k].logo = (IF k <= Len(Logo) THEN Logo[k] ELSE <<>>)
                /\ IF k <= Len(DataLines(info, pct))
                   THEN out[k].data = DataLines(info, pct)[k]
                   ELSE out[k].data = <<>>
    /\ pc = "done" => Len(out) = Max(Len(Logo), Len(DataLines(info, pct)))
    /\ pc = "done" => Len(out) = 15

C8_Witness ==
    /\ pc = "done"
    /\ Len(out) = 15
    /\ out[6].logo = Logo[6]
    /\ out[7].logo = <<>>
    /\ out[15].data = DataLines(info, pct)[15]

\* C9: getOS returns the value of the first line that begins with
\* PRETTY_NAME=, its surrounding double quotes removed and nothing else
\* changed (PRETTY_NAME="Test OS 1.0" gives Test OS 1.0), and the platform
\* identifier when the file cannot be opened or no line begins so.
C9_PrettyName ==
    Past("getOS_scan") =>
        /\ given.os.layout \in {"first", "after", "twice"} => info.OS = given.os.value
        /\ given.os.layout \in {"missing", "none", "indented"} => info.OS = GOOS
        /\ (given.os.layout \in {"first", "after", "twice"}
               /\ given.os.quotes = 1 /\ given.os.value = TestOSName) =>
              info.OS = <<"T", "e", "s", "t", " ", "O", "S", " ", "1", ".", "0">>

C9_Witness ==
    /\ pc = "done"
    /\ given.os.layout = "twice"
    /\ given.os.quotes = 1
    /\ host.osRelease.lines[2] = <<"P", "R", "E", "T", "T", "Y", "_", "N", "A", "M", "E", "=", "\"", "T", "e", "s", "t", " ", "O", "S", " ", "1", ".", "0", "\"">>
    /\ info.OS = <<"T", "e", "s", "t", " ", "O", "S", " ", "1", ".", "0">>

\* the handle that main holds at each position
HandlesAt(p) ==
    CASE p = "getOS_scan"     -> {OSReleasePath}
      [] p = "getCPU_scan"    -> {CPUInfoPath}
      [] p = "getUptime_read" -> {UptimePath}
      [] p = "getMemory_scan" -> {MeminfoPath}
      [] OTHER                -> {}

\* C10: each handle a resolver opens is released before the next is opened,
\* on every exit path of the resolver; at most one handle is open at any
\* moment, and none when printInfo starts or the program ends.
C10_HandlesScoped ==
    /\ Cardinality(handles) <= 1
    /\ handles = HandlesAt(pc)
    /\ pc \in {"printInfo", "print", "done"} => handles = {}

\* the fourth handle is open after three were opened and released, the first
\* on an early return
C10_Witness ==
    /\ pc = "getMemory_scan"
    /\ handles = {MeminfoPath}
    /\ given.os.layout = "after" /\ info.OS = TestOSName
    /\ given.cpu = "ok" /\ info.CPU = TestCPUName
    /\ given.up.layout = "garbage" /\ info.Uptime = NA

====
